---- MODULE Spec2Model ----
(***************************************************************************)
(* Backend supervisor of frontend/src-tauri/src/lib.rs.                    *)
(*                                                                         *)
(* The managed state is Mutex<BackendState>, BackendState.child being the  *)
(* slot that holds the handle of the spawned sidecar.  The operations are  *)
(* the commands start_backend, stop_backend and get_backend_url, the       *)
(* delayed auto-start task of setup, the CloseRequested handler, and the   *)
(* detached tasks that drain a sidecar's event receiver.  Every operation  *)
(* is cut into the steps at which another thread can be scheduled; the     *)
(* std::sync::Mutex decides which of these interleavings are possible.     *)
(***************************************************************************)
EXTENDS Integers, Sequences, FiniteSets

\* ------------------------------------------------------------------ bounds
NumCallers == 1     \* threads of the command dispatcher that invoke commands
MaxSpawns == 2      \* sidecar processes spawned in one run of the host
MaxQueue == 1       \* output events buffered in one receiver

\* ------------------------------------------------------------- identities
None == 0                       \* Option::None of BackendState.child
NoHolder == 0                   \* the mutex is free
Callers == 1..NumCallers        \* invocations of the commands
HookId == NumCallers + 1        \* the task spawned by setup
CloseId == NumCallers + 2       \* the on_window_event handler
Procs == 1..(NumCallers + 2)
Workers == 1..MaxSpawns         \* the n-th spawned sidecar is worker n

VARIABLES
    child,        \* BackendState.child: None or the worker whose handle it holds
    holder,       \* the process holding the MutexGuard, or NoHolder
    poisoned,     \* the mutex's poison flag
    pc,           \* pc[p]: where process p stands in its operation
    local_child,  \* local_child[p]: the CommandChild bound to p's local `child`
    ret,          \* what the step just taken returned to its caller, if anything
    nSpawned,     \* number of successful sidecar spawns so far
    alive,        \* the spawned workers whose OS process is running
    killed,       \* killed[w]: outcome of child.kill() on w's handle
    stream,       \* stream[w]: events sent on w's channel and not yet received
    drain,        \* drain[w]: the task draining w's receiver
    sinceStop,    \* history: who spawned since the slot was last taken
    scenario,     \* history: how far the run so far follows a scripted scenario
    lockErr       \* history: a command has returned the poisoned-guard error

vars == <<child, holder, poisoned, pc, local_child, ret, nSpawned, alive,
          killed, stream, drain, sinceStop, scenario, lockErr>>

\* ---------------------------------------------------------------- results
Ok(msg) == <<"Ok", msg>>
Err(msg) == <<"Err", msg>>
\* The step just taken returned nothing to any caller.
NoRet == <<0, <<"None", "">> >>

MsgAlreadyRunning == "Backend already running"
MsgStarted == "Backend started"
MsgStopped == "Backend stopped"
MsgNotRunning == "Backend was not running"
MsgPoisoned == "poisoned lock: another task failed inside"
MsgSidecarFailed == "Failed to create sidecar command: "
MsgSpawnFailed == "Failed to spawn backend: "
MsgKillFailed == "Failed to kill backend: "

\* Mutation of BackendUrl: the address is reported only while a worker is held.
BackendUrlWhenRunning == IF child # None THEN "http://localhost:8000" ELSE ""

\* get_backend_url's body: the literal, whatever the state.
BackendUrl == "http://localhost:8000"

\* CommandEvent as the drains tell them apart.  "Output" is any variant whose
\* arm only logs and goes on receiving: Stdout, Stderr, Error and, under the
\* wildcard arm, whatever else the plugin sends (lib.rs:31-39, 44, 98-104).
\* "Terminated" is the variant sent last, when the process has ended.
OutputEvents == {"Output"}

\* Mutation of IsSome: the occupancy test never fires.
IsSomeNever(opt) == FALSE

\* Option::is_some / is_none on the slot (lib.rs:13, 88).
IsSome(opt) == opt # None

\* Mutation of TakeLeaves: the handle is read without emptying the slot.
TakeLeavesKept == child

\* What Option::take leaves in the slot (lib.rs:56, 121).
TakeLeaves == None

\* std::sync::Mutex::lock returns once no other thread holds the guard.
CanLock == holder = NoHolder

\* Whether the OS can still create process number nSpawned + 1.
CanSpawn == nSpawned < MaxSpawns

\* The state a successful child.kill() or the worker's own exit leaves: the
\* process is gone and its channel carries the final Terminated event.
Terminate(w) ==
    /\ alive' = alive \ {w}
    /\ stream' = IF w \in alive
                 THEN [stream EXCEPT ![w] = Append(@, "Terminated")]
                 ELSE stream

\* ------------------------------------------------------------------- Init
\* run(): .manage(Mutex::new(BackendState { child: None })), nothing spawned.
Init ==
    /\ child = None
    /\ holder = NoHolder
    /\ poisoned = FALSE
    /\ pc = [p \in Procs |-> IF p = HookId THEN "sleep"
                             ELSE IF p = CloseId THEN "open" ELSE "idle"]
    /\ local_child = [p \in Procs |-> None]
    /\ ret = NoRet
    /\ nSpawned = 0
    /\ alive = {}
    /\ killed = [w \in Workers |-> "none"]
    /\ stream = [w \in Workers |-> << >>]
    /\ drain = [w \in Workers |-> "none"]
    /\ sinceStop = << >>
    /\ scenario = "none"
    /\ lockErr = FALSE

\* A command returns `result` to caller c, dropping the guard if it holds one.
Return(c, result) ==
    /\ pc' = [pc EXCEPT ![c] = "idle"]
    /\ ret' = <<c, result>>
    /\ holder' = IF holder = c THEN NoHolder ELSE holder

\* ---------------------------------------------------------- start_backend
\* The UI invokes start_backend.
StartCall(c) ==
    /\ pc[c] = "idle"
    /\ pc' = [pc EXCEPT ![c] = "start_lock"]
    /\ ret' = NoRet
    /\ UNCHANGED <<child, holder, poisoned, local_child, nSpawned, alive,
                   killed, stream, drain>>

\* lib.rs:11  state.lock().map_err(|e| e.to_string())?
StartLock(c) ==
    /\ pc[c] = "start_lock"
    /\ CanLock
    /\ IF poisoned
       THEN Return(c, Err(MsgPoisoned))
       ELSE /\ holder' = c
            /\ pc' = [pc EXCEPT ![c] = "start_check"]
            /\ ret' = NoRet
    /\ UNCHANGED <<child, poisoned, local_child, nSpawned, alive, killed,
                   stream, drain>>

\* Mutation of StartCheck: the guard is dropped once the slot was found
\* empty, so the resolution and the spawn run without it.
StartCheckReleases(c) ==
    /\ pc[c] = "start_check"
    /\ IF IsSome(child)
       THEN Return(c, Ok(MsgAlreadyRunning))
       ELSE /\ pc' = [pc EXCEPT ![c] = "start_sidecar"]
            /\ ret' = NoRet /\ holder' = NoHolder
    /\ UNCHANGED <<child, poisoned, local_child, nSpawned, alive, killed,
                   stream, drain>>

\* lib.rs:13-15  if backend_state.child.is_some() { return Ok(..) }
StartCheck(c) ==
    /\ pc[c] = "start_check"
    /\ IF IsSome(child)
       THEN Return(c, Ok(MsgAlreadyRunning))
       ELSE /\ pc' = [pc EXCEPT ![c] = "start_sidecar"]
            /\ ret' = NoRet /\ UNCHANGED holder
    /\ UNCHANGED <<child, poisoned, local_child, nSpawned, alive, killed,
                   stream, drain>>

\* lib.rs:17-19  app.shell().sidecar("tysttext-backend").map_err(..)?
StartSidecar(c) ==
    /\ pc[c] = "start_sidecar"
    /\ \E ok \in BOOLEAN :
         IF ok
         THEN /\ pc' = [pc EXCEPT ![c] = "start_spawn"]
              /\ ret' = NoRet /\ UNCHANGED holder
         ELSE Return(c, Err(MsgSidecarFailed))
    /\ UNCHANGED <<child, poisoned, local_child, nSpawned, alive, killed,
                   stream, drain>>

\* Mutation of StartSpawn: a failed spawn panics (expect instead of map_err)
\* with the guard held, which poisons the mutex.
StartSpawnPanics(c) ==
    /\ pc[c] = "start_spawn"
    /\ \E ok \in BOOLEAN :
         IF ok
         THEN /\ CanSpawn
              /\ nSpawned' = nSpawned + 1
              /\ alive' = alive \cup {nSpawned + 1}
              /\ local_child' = [local_child EXCEPT ![c] = nSpawned + 1]
              /\ pc' = [pc EXCEPT ![c] = "start_store"]
              /\ ret' = NoRet /\ UNCHANGED <<holder, poisoned>>
         ELSE /\ Return(c, Err(MsgSpawnFailed))
              /\ poisoned' = TRUE
              /\ UNCHANGED <<nSpawned, alive, local_child>>
    /\ UNCHANGED <<child, killed, stream, drain>>

\* lib.rs:21-23  let (mut rx, child) = sidecar_command.spawn().map_err(..)?
StartSpawn(c) ==
    /\ pc[c] = "start_spawn"
    /\ \E ok \in BOOLEAN :
         IF ok
         THEN /\ CanSpawn
              /\ nSpawned' = nSpawned + 1
              /\ alive' = alive \cup {nSpawned + 1}
              /\ local_child' = [local_child EXCEPT ![c] = nSpawned + 1]
              /\ pc' = [pc EXCEPT ![c] = "start_store"]
              /\ ret' = NoRet /\ UNCHANGED holder
         ELSE /\ Return(c, Err(MsgSpawnFailed))
              /\ UNCHANGED <<nSpawned, alive, local_child>>
    /\ UNCHANGED <<child, poisoned, killed, stream, drain>>

\* Mutation of StartStore: the handle is dropped instead of stored.
StartStoreLost(c) ==
    /\ pc[c] = "start_store"
    /\ local_child' = [local_child EXCEPT ![c] = None]
    /\ drain' = [drain EXCEPT ![local_child[c]] = "cmd"]
    /\ Return(c, Ok(MsgStarted))
    /\ UNCHANGED <<child, poisoned, nSpawned, alive, killed, stream>>

\* lib.rs:25-49  backend_state.child = Some(child); the drain task is
\* detached on rx; Ok("Backend started") is returned and the guard dropped.
\* Nothing in these lines blocks, and the guard is held throughout.
StartStore(c) ==
    /\ pc[c] = "start_store"
    /\ child' = local_child[c]
    /\ local_child' = [local_child EXCEPT ![c] = None]
    /\ drain' = [drain EXCEPT ![local_child[c]] = "cmd"]
    /\ Return(c, Ok(MsgStarted))
    /\ UNCHANGED <<poisoned, nSpawned, alive, killed, stream>>

\* ----------------------------------------------------------- stop_backend
\* The UI invokes stop_backend.
StopCall(c) ==
    /\ pc[c] = "idle"
    /\ pc' = [pc EXCEPT ![c] = "stop_lock"]
    /\ ret' = NoRet
    /\ UNCHANGED <<child, holder, poisoned, local_child, nSpawned, alive,
                   killed, stream, drain>>

\* lib.rs:54  state.lock().map_err(|e| e.to_string())?
StopLock(c) ==
    /\ pc[c] = "stop_lock"
    /\ CanLock
    /\ IF poisoned
       THEN Return(c, Err(MsgPoisoned))
       ELSE /\ holder' = c
            /\ pc' = [pc EXCEPT ![c] = "stop_take"]
            /\ ret' = NoRet
    /\ UNCHANGED <<child, poisoned, local_child, nSpawned, alive, killed,
                   stream, drain>>

\* lib.rs:56, 61  if let Some(child) = backend_state.child.take() {..}
\*                Ok("Backend was not running")
StopTake(c) ==
    /\ pc[c] = "stop_take"
    /\ IF IsSome(child)
       THEN /\ local_child' = [local_child EXCEPT ![c] = child]
            /\ child' = TakeLeaves
            /\ pc' = [pc EXCEPT ![c] = "stop_kill"]
            /\ ret' = NoRet /\ UNCHANGED holder
       ELSE /\ Return(c, Ok(MsgNotRunning))
            /\ child' = TakeLeaves
            /\ UNCHANGED local_child
    /\ UNCHANGED <<poisoned, nSpawned, alive, killed, stream, drain>>

\* Mutation of StopKill: a failed kill puts the handle back into the slot.
StopKillRestores(c) ==
    /\ pc[c] = "stop_kill"
    /\ \E ok \in BOOLEAN :
         /\ killed' = [killed EXCEPT ![local_child[c]] =
                          IF ok THEN "ok" ELSE "failed"]
         /\ IF ok
            THEN /\ Terminate(local_child[c])
                 /\ Return(c, Ok(MsgStopped))
                 /\ UNCHANGED child
            ELSE /\ UNCHANGED <<alive, stream>>
                 /\ Return(c, Err(MsgKillFailed))
                 /\ child' = local_child[c]
    /\ local_child' = [local_child EXCEPT ![c] = None]
    /\ UNCHANGED <<poisoned, nSpawned, drain>>

\* lib.rs:57-58  child.kill().map_err(..)?; return Ok("Backend stopped")
\* kill consumes the handle, whatever it returns.
StopKill(c) ==
    /\ pc[c] = "stop_kill"
    /\ \E ok \in BOOLEAN :
         /\ killed' = [killed EXCEPT ![local_child[c]] =
                          IF ok THEN "ok" ELSE "failed"]
         /\ IF ok
            THEN /\ Terminate(local_child[c])
                 /\ Return(c, Ok(MsgStopped))
            ELSE /\ UNCHANGED <<alive, stream>>
                 /\ Return(c, Err(MsgKillFailed))
    /\ local_child' = [local_child EXCEPT ![c] = None]
    /\ UNCHANGED <<child, poisoned, nSpawned, drain>>

\* -------------------------------------------------------- get_backend_url
\* lib.rs:64-67  the whole command: no lock, no state, the literal converted
\* to a String.  It has no point at which another thread could change what
\* it does, so it is one step.
get_backend_url(c) ==
    /\ pc[c] = "idle"
    /\ ret' = <<c, <<"Val", BackendUrl>> >>
    /\ UNCHANGED <<child, holder, poisoned, pc, local_child, nSpawned, alive,
                   killed, stream, drain>>

\* ------------------------------------------------- setup: auto-start task
\* The task ends, dropping the guard if it holds one.
HookEnd ==
    /\ pc' = [pc EXCEPT ![HookId] = "hook_done"]
    /\ holder' = IF holder = HookId THEN NoHolder ELSE holder

\* lib.rs:84-87  the 500 ms sleep has elapsed and state.lock() has returned:
\* if let Ok(mut backend_state) = state.lock().  A task blocked in lock()
\* changes nothing, so waking and acquiring are one step.
HookLock ==
    /\ pc[HookId] = "sleep"
    /\ CanLock
    /\ IF poisoned
       THEN HookEnd
       ELSE /\ holder' = HookId
            /\ pc' = [pc EXCEPT ![HookId] = "hook_check"]
    /\ ret' = NoRet
    /\ UNCHANGED <<child, poisoned, local_child, nSpawned, alive,
                   killed, stream, drain>>

\* Mutation of HookCheck: the auto-start does not look at the slot.
HookCheckSkipped ==
    /\ pc[HookId] = "hook_check"
    /\ pc' = [pc EXCEPT ![HookId] = "hook_sidecar"]
    /\ ret' = NoRet
    /\ UNCHANGED <<child, holder, poisoned, local_child, nSpawned, alive,
                   killed, stream, drain>>

\* lib.rs:88  if backend_state.child.is_none()
HookCheck ==
    /\ pc[HookId] = "hook_check"
    /\ IF IsSome(child)
       THEN HookEnd
       ELSE /\ pc' = [pc EXCEPT ![HookId] = "hook_sidecar"]
            /\ UNCHANGED holder
    /\ ret' = NoRet
    /\ UNCHANGED <<child, poisoned, local_child, nSpawned, alive,
                   killed, stream, drain>>

\* lib.rs:89  if let Ok(sidecar) = handle.shell().sidecar("tysttext-backend")
HookSidecar ==
    /\ pc[HookId] = "hook_sidecar"
    /\ \E ok \in BOOLEAN :
         IF ok
         THEN /\ pc' = [pc EXCEPT ![HookId] = "hook_spawn"]
              /\ UNCHANGED holder
         ELSE HookEnd
    /\ ret' = NoRet
    /\ UNCHANGED <<child, poisoned, local_child, nSpawned, alive,
                   killed, stream, drain>>

\* lib.rs:90  if let Ok((mut rx, child)) = sidecar.spawn()
HookSpawn ==
    /\ pc[HookId] = "hook_spawn"
    /\ \E ok \in BOOLEAN :
         IF ok
         THEN /\ CanSpawn
              /\ nSpawned' = nSpawned + 1
              /\ alive' = alive \cup {nSpawned + 1}
              /\ local_child' = [local_child EXCEPT ![HookId] = nSpawned + 1]
              /\ pc' = [pc EXCEPT ![HookId] = "hook_store"]
              /\ UNCHANGED holder
         ELSE /\ HookEnd
              /\ UNCHANGED <<nSpawned, alive, local_child>>
    /\ ret' = NoRet
    /\ UNCHANGED <<child, poisoned, killed, stream, drain>>

\* lib.rs:91  backend_state.child = Some(child)
HookStore ==
    /\ pc[HookId] = "hook_store"
    /\ child' = local_child[HookId]
    /\ local_child' = [local_child EXCEPT ![HookId] = None]
    /\ pc' = [pc EXCEPT ![HookId] = "hook_print"]
    /\ ret' = NoRet
    /\ UNCHANGED <<holder, poisoned, nSpawned, alive, killed, stream,
                   drain>>

\* lib.rs:92-107  println!("Backend auto-started"), then the drain task is
\* detached on rx and the guard dropped.  println! panics when the write to
\* stdout fails: the task unwinds with the guard held, which poisons the
\* mutex, and rx is dropped with no drain attached.
HookPrint ==
    /\ pc[HookId] = "hook_print"
    /\ \E ok \in BOOLEAN :
         IF ok
         THEN /\ drain' = [drain EXCEPT ![child] = "auto"]
              /\ UNCHANGED poisoned
         ELSE /\ poisoned' = TRUE
              /\ UNCHANGED drain
    /\ HookEnd
    /\ ret' = NoRet
    /\ UNCHANGED <<child, local_child, nSpawned, alive, killed, stream>>

\* ------------------------------------------- on_window_event: window close
\* The handler returns, dropping the guard if it holds one.
CloseEnd ==
    /\ pc' = [pc EXCEPT ![CloseId] = "closed"]
    /\ holder' = IF holder = CloseId THEN NoHolder ELSE holder

\* lib.rs:118-120  a WindowEvent::CloseRequested is delivered and
\* state.lock() has returned: if let Ok(mut backend_state) = state.lock()
CloseLock ==
    /\ pc[CloseId] = "open"
    /\ CanLock
    /\ IF poisoned
       THEN CloseEnd
       ELSE /\ holder' = CloseId
            /\ pc' = [pc EXCEPT ![CloseId] = "close_take"]
    /\ ret' = NoRet
    /\ UNCHANGED <<child, poisoned, local_child, nSpawned, alive,
                   killed, stream, drain>>

\* lib.rs:121  if let Some(child) = backend_state.child.take()
CloseTake ==
    /\ pc[CloseId] = "close_take"
    /\ IF IsSome(child)
       THEN /\ local_child' = [local_child EXCEPT ![CloseId] = child]
            /\ pc' = [pc EXCEPT ![CloseId] = "close_kill"]
            /\ UNCHANGED holder
       ELSE /\ CloseEnd
            /\ UNCHANGED local_child
    /\ child' = TakeLeaves
    /\ ret' = NoRet
    /\ UNCHANGED <<poisoned, nSpawned, alive, killed, stream, drain>>

\* A variant of CloseKill that unwraps the result of kill(): a failed kill
\* panics inside the handler, under the guard, instead of being discarded.
CloseKillUnwraps ==
    /\ pc[CloseId] = "close_kill"
    /\ \E ok \in BOOLEAN :
         /\ killed' = [killed EXCEPT ![local_child[CloseId]] =
                          IF ok THEN "ok" ELSE "failed"]
         /\ IF ok
            THEN Terminate(local_child[CloseId])
            ELSE UNCHANGED <<alive, stream>>
         /\ poisoned' = (poisoned \/ ~ok)
    /\ local_child' = [local_child EXCEPT ![CloseId] = None]
    /\ CloseEnd
    /\ ret' = NoRet
    /\ UNCHANGED <<child, nSpawned, drain>>

\* lib.rs:122-123  let _ = child.kill(); println!(..): the result of the
\* kill is discarded and the handler returns.  (A panic of this println!
\* unwinds the event-loop thread and ends the host: no step follows it, so
\* it adds no state.)
CloseKill ==
    /\ pc[CloseId] = "close_kill"
    /\ \E ok \in BOOLEAN :
         /\ killed' = [killed EXCEPT ![local_child[CloseId]] =
                          IF ok THEN "ok" ELSE "failed"]
         /\ IF ok
            THEN Terminate(local_child[CloseId])
            ELSE UNCHANGED <<alive, stream>>
    /\ local_child' = [local_child EXCEPT ![CloseId] = None]
    /\ CloseEnd
    /\ ret' = NoRet
    /\ UNCHANGED <<child, poisoned, nSpawned, drain>>

\* ------------------------------------------------------------ the sidecar
\* The running sidecar writes a line, or the shell plugin reports an error:
\* a CommandEvent is sent on its channel, which buffers up to MaxQueue.
WorkerOutput(w) ==
    /\ w \in alive
    /\ Len(stream[w]) < MaxQueue
    /\ \E e \in OutputEvents : stream' = [stream EXCEPT ![w] = Append(@, e)]
    /\ ret' = NoRet
    /\ UNCHANGED <<child, holder, poisoned, pc, local_child, nSpawned,
                   alive, killed, drain>>

\* The sidecar exits on its own (crash or normal exit).
WorkerExit(w) ==
    /\ w \in alive
    /\ Terminate(w)
    /\ ret' = NoRet
    /\ UNCHANGED <<child, holder, poisoned, pc, local_child, nSpawned,
                   killed, drain>>

\* ------------------------------------------------------- the drain tasks
\* Whether the loop leaves after event e: lib.rs:40-43 breaks on Terminated
\* in start_backend's task; lib.rs:97-105 has no such arm.
BreaksOn(kind, e) == kind = "cmd" /\ e = "Terminated"

\* Mutation of DrainRecv: the drain empties the slot when it sees Terminated.
DrainRecvClears(w) ==
    /\ drain[w] \in {"cmd", "auto"}
    /\ IF stream[w] # << >>
       THEN /\ stream' = [stream EXCEPT ![w] = Tail(@)]
            /\ drain' = IF BreaksOn(drain[w], Head(stream[w]))
                        THEN [drain EXCEPT ![w] = "exited"]
                        ELSE drain
            /\ child' = IF Head(stream[w]) = "Terminated" /\ child = w
                        THEN None ELSE child
       ELSE /\ w \notin alive
            /\ drain' = [drain EXCEPT ![w] = "exited"]
            /\ UNCHANGED <<stream, child>>
    /\ ret' = NoRet
    /\ UNCHANGED <<holder, poisoned, pc, local_child, nSpawned, alive, killed>>

\* Mutation of DrainRecv: the loop does not end when recv() yields None (a
\* `loop` around `if let Some(..)` in place of `while let`).
DrainRecvSpins(w) ==
    /\ drain[w] \in {"cmd", "auto"}
    /\ IF stream[w] # << >>
       THEN /\ stream' = [stream EXCEPT ![w] = Tail(@)]
            /\ drain' = IF BreaksOn(drain[w], Head(stream[w]))
                        THEN [drain EXCEPT ![w] = "exited"]
                        ELSE drain
       ELSE /\ w \notin alive
            /\ UNCHANGED <<drain, stream>>
    /\ ret' = NoRet
    /\ UNCHANGED <<child, holder, poisoned, pc, local_child, nSpawned,
                   alive, killed>>

\* lib.rs:29, 96  while let Some(event) = rx.recv().await { match event ..}
\* recv yields the next buffered event, or None once the channel is empty
\* and its senders are gone (the process has terminated).
DrainRecv(w) ==
    /\ drain[w] \in {"cmd", "auto"}
    /\ IF stream[w] # << >>
       THEN /\ stream' = [stream EXCEPT ![w] = Tail(@)]
            /\ drain' = IF BreaksOn(drain[w], Head(stream[w]))
                        THEN [drain EXCEPT ![w] = "exited"]
                        ELSE drain
       ELSE /\ w \notin alive
            /\ drain' = [drain EXCEPT ![w] = "exited"]
            /\ UNCHANGED stream
    /\ ret' = NoRet
    /\ UNCHANGED <<child, holder, poisoned, pc, local_child, nSpawned,
                   alive, killed>>

\* --------------------------------------------------------------- history
StartPcs == {"start_lock", "start_check", "start_sidecar", "start_spawn",
             "start_store"}
StopPcs == {"stop_lock", "stop_take", "stop_kill"}

\* sinceStop lists the start operations that spawned since the slot was last
\* taken by stop_backend or the close handler.
SinceStopNext ==
    IF \E p \in Procs : pc[p] \in {"stop_take", "close_take"} /\ pc'[p] # pc[p]
    THEN << >>
    ELSE IF nSpawned' # nSpawned
    THEN Append(sinceStop, IF pc[HookId] = "hook_spawn" /\ pc'[HookId] # pc[HookId]
                           THEN "auto" ELSE "cmd")
    ELSE sinceStop

\* scenario follows the commands completed so far while they form a prefix of
\*   start (Ok), stop (Ok), start (Ok)                  -> "restarted"
\*   start (Ok), stop (Ok), stop                        -> "stopped_twice"
\*   start (resolution or spawn failed), start (Ok)     -> "retried"
\* each command run alone: no other command in progress and neither hook
\* having acted.  Anything else, and any command invoked after the scenario's
\* last one, switches it "off".  get_backend_url and the steps of sidecars and
\* drains do not count as commands.
ScenarioNext ==
    IF pc'[HookId] # pc[HookId] \/ pc'[CloseId] # pc[CloseId]
    THEN "off"
    ELSE IF \E c \in Callers : pc[c] \in StartPcs \cup StopPcs /\ pc'[c] = "idle"
    THEN LET c == CHOOSE d \in Callers :
                      pc[d] \in StartPcs \cup StopPcs /\ pc'[d] = "idle"
             alone == /\ \A d \in Callers \ {c} : pc[d] = "idle"
                      /\ pc[HookId] = "sleep"
                      /\ pc[CloseId] = "open"
             started == pc[c] \in StartPcs /\ ret'[2][1] = "Ok"
             failed == /\ pc[c] \in StartPcs
                       /\ ret' \in {<<c, Err(MsgSidecarFailed)>>,
                                    <<c, Err(MsgSpawnFailed)>>}
             stopped == pc[c] \in StopPcs /\ ret'[2][1] = "Ok"
         IN  IF ~alone THEN "off"
             ELSE IF scenario = "none" /\ started THEN "started"
             ELSE IF scenario = "none" /\ failed THEN "failed"
             ELSE IF scenario = "failed" /\ started THEN "retried"
             ELSE IF scenario = "started" /\ stopped THEN "stopped"
             ELSE IF scenario = "stopped" /\ started THEN "restarted"
             ELSE IF scenario = "stopped" /\ pc[c] \in StopPcs THEN "stopped_twice"
             ELSE "off"
    ELSE IF /\ scenario \in {"restarted", "stopped_twice", "retried"}
            /\ \E c \in Callers : pc[c] = "idle" /\ pc'[c] # "idle"
    THEN "off"
    ELSE scenario

Observe ==
    /\ sinceStop' = SinceStopNext
    /\ scenario' = ScenarioNext
    /\ lockErr' = (lockErr \/ ret'[2] = Err(MsgPoisoned))

\* ------------------------------------------------------------------ Next
Next ==
    \/ \E c \in Callers : StartCall(c) /\ Observe
    \/ \E c \in Callers : StartLock(c) /\ Observe
    \/ \E c \in Callers : StartCheck(c) /\ Observe
    \/ \E c \in Callers : StartSidecar(c) /\ Observe
    \/ \E c \in Callers : StartSpawn(c) /\ Observe
    \/ \E c \in Callers : StartStore(c) /\ Observe
    \/ \E c \in Callers : StopCall(c) /\ Observe
    \/ \E c \in Callers : StopLock(c) /\ Observe
    \/ \E c \in Callers : StopTake(c) /\ Observe
    \/ \E c \in Callers : StopKill(c) /\ Observe
    \/ \E c \in Callers : get_backend_url(c) /\ Observe
    \/ HookLock /\ Observe
    \/ HookCheck /\ Observe
    \/ HookSidecar /\ Observe
    \/ HookSpawn /\ Observe
    \/ HookStore /\ Observe
    \/ HookPrint /\ Observe
    \/ CloseLock /\ Observe
    \/ CloseTake /\ Observe
    \/ CloseKill /\ Observe
    \/ \E w \in Workers : WorkerOutput(w) /\ Observe
    \/ \E w \in Workers : WorkerExit(w) /\ Observe
    \/ \E w \in Workers : DrainRecv(w) /\ Observe

Spec == Init /\ [][Next]_vars

\* The drain tasks are spawned on the async runtime (lib.rs:28, 95), which
\* keeps polling a task whose recv() is ready: a drain step that stays
\* enabled is eventually taken.
FairSpec == Spec /\ \A w \in Workers : WF_vars(DrainRecv(w) /\ Observe)

\* ================================================================ claims
\* Process p takes the step.
Stepped(p) == pc'[p] # pc[p]

InSeq(x, seq) == \E i \in 1..Len(seq) : seq[i] = x

\* ---- C1 ----------------------------------------------------------------
\* C1 as stated: in every reachable state at most one worker spawned by the
\* supervisor is alive, kills being allowed to fail.
C1_AtMostOneAlive == Cardinality(alive) <= 1

\* C1 amended: at most one worker is alive on which no kill has been
\* attempted; a worker whose kill failed may stay alive beside a newer one.
C1_AtMostOneAliveUnkilled ==
    Cardinality({w \in alive : killed[w] = "none"}) <= 1

\* A worker whose kill failed is alive together with a second worker.
C1_Witness == \E w \in alive : killed[w] = "failed" /\ alive # {w}

\* ---- C2 ----------------------------------------------------------------
\* C2: once a start_backend call has spawned and no stop_backend or close
\* handler has taken the slot since, every later start_backend call gets the
\* guard, spawns nothing, attaches no drain, leaves the slot as it is and
\* returns Ok("Backend already running").
C2_LaterStartsAreNoOps ==
    [][\A c \in Callers :
         (/\ InSeq("cmd", sinceStop)
          /\ pc[c] \in StartPcs \ {"start_store"}
          /\ Stepped(c))
         => \/ pc[c] = "start_lock" /\ pc'[c] = "start_check"
            \/ /\ pc[c] = "start_check"
               /\ ret' = <<c, Ok("Backend already running")>>
               /\ nSpawned' = nSpawned
               /\ drain' = drain
               /\ child' = child
               /\ child # None]_vars

\* A later call has just returned "already running" after a call's spawn.
C2_Witness ==
    /\ InSeq("cmd", sinceStop)
    /\ ret[2] = Ok(MsgAlreadyRunning)

\* ---- C3 ----------------------------------------------------------------
\* C3: a stop_backend that finds the slot empty returns
\* Ok("Backend was not running"), kills nothing and leaves the slot empty;
\* and the second of two stop_backend calls run one after the other returns
\* Ok("Backend was not running").
C3_StopWhenIdle ==
    [][/\ \A c \in Callers :
            (pc[c] = "stop_take" /\ Stepped(c) /\ child = None)
            => /\ ret' = <<c, Ok("Backend was not running")>>
               /\ child' = None
               /\ killed' = killed
               /\ alive' = alive
       /\ (scenario = "stopped" /\ scenario' = "stopped_twice")
            => /\ ret'[2] = Ok("Backend was not running")
               /\ child' = None
               /\ killed' = killed]_vars

\* start, stop, stop has run and the second stop has just returned.
C3_Witness == scenario = "stopped_twice" /\ ret[2] = Ok(MsgNotRunning)

\* ---- C4 ----------------------------------------------------------------
\* C4: when start_backend fails to resolve the sidecar or to spawn it, it
\* returns an error, the slot is empty, no drain is attached and nothing is
\* spawned; the guard is left free and unpoisoned, so a later start_backend
\* can take it and spawn.
C4_FailedStartLeavesIdle ==
    [][\A c \in Callers :
         (pc[c] \in {"start_sidecar", "start_spawn"} /\ pc'[c] = "idle")
         => /\ ret'[1] = c
            /\ ret'[2][1] = "Err"
            /\ child = None /\ child' = None
            /\ drain' = drain
            /\ nSpawned' = nSpawned /\ alive' = alive
            /\ holder' = NoHolder
            /\ ~poisoned']_vars

\* A start_backend failed and the start_backend after it has spawned and
\* occupies the slot.
C4_Witness == scenario = "retried" /\ child # None

\* ---- C5 ----------------------------------------------------------------
\* C5: stop_backend on an occupied slot issues exactly one kill on the handle
\* it took and returns at once; the slot is empty afterwards whether the
\* kill succeeded (Ok("Backend stopped")) or failed (an error), and the
\* handle is not put back.
C5_StopClearsSlot ==
    [][\A c \in Callers :
         (pc[c] = "stop_kill" /\ Stepped(c))
         => /\ pc'[c] = "idle"
            /\ child = None /\ child' = None
            /\ killed[local_child[c]] = "none"
            /\ \/ /\ killed'[local_child[c]] = "ok"
                  /\ ret' = <<c, Ok("Backend stopped")>>
                  /\ local_child[c] \notin alive'
               \/ /\ killed'[local_child[c]] = "failed"
                  /\ ret'[1] = c /\ ret'[2][1] = "Err"
                  /\ alive' = alive
            /\ local_child'[c] = None]_vars

\* A stop_backend has just returned the kill's error and the slot is empty
\* while the worker lives on.
C5_Witness ==
    /\ ret[2] = Err(MsgKillFailed)
    /\ child = None
    /\ \E w \in alive : killed[w] = "failed"

\* ---- C6 ----------------------------------------------------------------
\* C6: start operations (start_backend calls and the auto-start) interleaved
\* with no stop in between spawn at most once, the slot ends up holding
\* exactly the handle spawned, and no start overwrites a handle in the slot.
C6_OneSpawnPerIdlePeriod ==
    /\ [](/\ Len(sinceStop) <= 1
          /\ Len(sinceStop) = 1
               => \/ child = nSpawned
                  \/ \E p \in Procs : /\ local_child[p] = nSpawned
                                      /\ pc[p] \in {"start_store", "hook_store"}
                                      /\ holder = p)
    /\ [][(child # None /\ child' # None) => child' = child]_vars

\* A start_backend call waits for the guard while the auto-start, having
\* spawned, is about to store its handle.
C6_Witness ==
    \E c \in Callers : pc[c] = "start_lock" /\ pc[HookId] = "hook_store"

\* ---- C7 ----------------------------------------------------------------
\* C7 as stated: whenever no operation holds the guard, the slot is occupied
\* if and only if a worker spawned by the supervisor is running.
C7_SlotIffAlive == holder = NoHolder => ((child # None) <=> (alive # {}))

\* C7 amended: the slot is occupied if and only if the last worker spawned
\* has been stored and not yet taken out by stop_backend or the close
\* handler, whether or not that worker is still running.
C7_SlotIffHeld ==
    /\ child \in {None, nSpawned}
    /\ (child # None) <=> /\ nSpawned > 0
                          /\ killed[nSpawned] = "none"
                          /\ \A p \in Procs : local_child[p] # nSpawned

\* The slot holds the handle of a worker that terminated on its own.
C7_Witness ==
    /\ holder = NoHolder
    /\ child # None
    /\ child \notin alive
    /\ killed[child] = "none"

\* ---- C8 ----------------------------------------------------------------
\* C8: a step of a drain task changes neither the slot nor the guard; the
\* slot is emptied only by stop_backend or the close handler; so a
\* start_backend that finds the handle of a worker that terminated on its own
\* returns Ok("Backend already running") and spawns nothing.
C8_DrainLeavesSlot ==
    [][/\ (\E w \in Workers :
              /\ drain[w] \in {"cmd", "auto"}
              /\ drain'[w] = "exited" \/ Len(stream'[w]) < Len(stream[w]))
         => /\ child' = child
            /\ holder' = holder
            /\ poisoned' = poisoned
       /\ (child # None /\ child' = None)
         => \E p \in Procs : pc[p] \in {"stop_take", "close_take"} /\ Stepped(p)
       /\ \A c \in Callers :
            (pc[c] = "start_check" /\ Stepped(c) /\ child # None
               /\ child \notin alive)
            => /\ ret' = <<c, Ok("Backend already running")>>
               /\ nSpawned' = nSpawned
               /\ child' = child]_vars

\* A start_backend has just returned "already running" although the worker
\* in the slot terminated on its own and its drain saw Terminated and left.
C8_Witness ==
    /\ ret[2] = Ok(MsgAlreadyRunning)
    /\ child # None
    /\ child \notin alive
    /\ killed[child] = "none"
    /\ drain[child] = "exited"

\* ---- C9 ----------------------------------------------------------------
\* C9: after start_backend, stop_backend, start_backend run one after the
\* other, each returning Ok and nothing else interleaved, exactly two workers
\* have been spawned, the first has been killed and the slot holds the
\* second one's handle.
C9_RestartSpawnsTwice ==
    scenario = "restarted"
    => /\ nSpawned = 2
       /\ child = 2
       /\ killed[1] = "ok"
       /\ killed[2] = "none"

\* The three commands have run as scripted.
C9_Witness == scenario = "restarted" /\ ret[2] = Ok(MsgStarted)

\* ---- C10 ---------------------------------------------------------------
\* C10: every get_backend_url returns "http://localhost:8000", whatever the
\* slot holds and whoever holds the guard, and changes nothing: not the
\* slot, the guard, the workers or the drains.
C10_UrlIsFixedAndPure ==
    [][ret'[2][1] = "Val"
         => /\ ret'[2][2] = "http://localhost:8000"
            /\ UNCHANGED <<child, holder, poisoned, pc, local_child, nSpawned,
                           alive, killed, stream, drain>>]_vars

\* get_backend_url has just returned while another operation holds the guard
\* and the slot is occupied.
C10_WitnessRunning ==
    /\ ret[2] = <<"Val", "http://localhost:8000">>
    /\ holder \notin {NoHolder, ret[1]}
    /\ child # None

\* ---- C11 ---------------------------------------------------------------
\* C11 as stated: a start_backend or stop_backend that finds the guard
\* poisoned returns an error and changes nothing, and a command that comes
\* after such an error gets the guard and goes on into its body.
C11_UsableAfterLockError ==
    [][\A c \in Callers :
         (pc[c] \in {"start_lock", "stop_lock"} /\ Stepped(c))
         => /\ (poisoned => /\ ret' = <<c, Err(MsgPoisoned)>>
                            /\ UNCHANGED <<child, nSpawned, alive, killed,
                                           drain, holder>>)
            /\ (lockErr => pc'[c] \in {"start_check", "stop_take"})]_vars

\* What the code does instead: the poison flag is never cleared, so once a
\* command has returned the lock error every later one returns it too.
C11_PoisonIsPermanent ==
    /\ [](lockErr => poisoned)
    /\ [][poisoned => poisoned']_vars

\* ---- C12 ---------------------------------------------------------------
\* C12: when the close handler holds the (unpoisoned) guard and the slot is
\* occupied, it takes the handle out and goes on to kill it; the kill step
\* is attempted on that handle, and whether it succeeds or fails the handler
\* returns with the slot empty, the guard released and not poisoned.
C12_CloseTakesAndKills ==
    [][/\ (pc[CloseId] = "close_take" /\ Stepped(CloseId) /\ IsSome(child))
          => /\ child' = None
             /\ local_child'[CloseId] = child
             /\ pc'[CloseId] = "close_kill"
             /\ killed' = killed
       /\ (pc[CloseId] = "close_kill" /\ Stepped(CloseId))
          => /\ killed[local_child[CloseId]] = "none"
             /\ killed'[local_child[CloseId]] \in {"ok", "failed"}
             /\ killed'[local_child[CloseId]] = "ok"
                  => local_child[CloseId] \notin alive'
             /\ pc'[CloseId] = "closed"
             /\ child' = None /\ child = None
             /\ holder' = NoHolder
             /\ poisoned' = poisoned /\ ~poisoned]_vars

\* The handler has taken a live worker's handle out of the slot and is about
\* to kill it.
C12_Witness ==
    /\ pc[CloseId] = "close_kill"
    /\ child = None
    /\ local_child[CloseId] \in alive

\* ---- C13 ---------------------------------------------------------------
\* C13: the startup hook spawns only when it found the slot empty under the
\* guard; when it finds the slot occupied it ends having spawned nothing and
\* left the slot as it was; when resolving or spawning the sidecar fails it
\* ends with the slot still empty; and no step of the hook hands a result
\* to any caller.
C13_HookSpawnsOnlyIntoEmptySlot ==
    [][Stepped(HookId) =>
         /\ ret' = NoRet
         /\ nSpawned' # nSpawned
              => /\ pc[HookId] = "hook_spawn"
                 /\ child = None
                 /\ holder = HookId
         /\ (pc[HookId] = "hook_check" /\ IsSome(child))
              => /\ pc'[HookId] = "hook_done"
                 /\ UNCHANGED <<child, nSpawned, alive, killed, stream,
                                drain, poisoned>>
         /\ (pc[HookId] \in {"hook_sidecar", "hook_spawn"}
               /\ pc'[HookId] = "hook_done")
              => /\ child = None
                 /\ UNCHANGED <<child, nSpawned, alive, killed, stream,
                                drain, poisoned>>]_vars

\* The hook has woken up and holds the guard over a slot that an explicit
\* start_backend filled during the delay.
C13_Witness ==
    /\ pc[HookId] = "hook_check"
    /\ IsSome(child)
    /\ drain[child] = "cmd"

\* ---- C14 ---------------------------------------------------------------
\* C14 as stated: once the close handler has run, with no start_backend
\* spawning or in progress since the handler emptied the slot and no kill
\* having failed, no worker of the supervisor is alive.
C14_NoWorkerAfterClose ==
    (/\ pc[CloseId] = "closed"
     /\ ~InSeq("cmd", sinceStop)
     /\ \A c \in Callers : pc[c] \notin StartPcs
     /\ \A w \in Workers : killed[w] # "failed")
    => alive = {}

\* ---- C15 ---------------------------------------------------------------
\* C15 as stated: a drain task of either kind that receives the Terminated
\* event of its stream stops at that event: it has exited when the step that
\* consumed the event is over, so it receives nothing after it.
C15_DrainStopsAtTerminated ==
    [][\A w \in Workers :
         (/\ drain[w] \in {"cmd", "auto"}
          /\ stream[w] # << >>
          /\ Head(stream[w]) = "Terminated"
          /\ stream'[w] = Tail(stream[w]))
         => drain'[w] = "exited"]_vars

\* What holds of both kinds: a drain exits only on a Terminated event or on
\* the end of the stream of a dead worker, and only start_backend's drain
\* exits on the event.
C15_DrainExitsOnTerminatedOrEnd ==
    [][\A w \in Workers :
         (drain[w] \in {"cmd", "auto"} /\ drain'[w] = "exited")
         => \/ drain[w] = "cmd" /\ stream[w] # << >>
               /\ Head(stream[w]) = "Terminated"
            \/ stream[w] = << >> /\ w \notin alive]_vars

\* ---- C16 ---------------------------------------------------------------
\* A start operation between finding the slot empty and storing the handle.
MidSpawnPcs == {"start_sidecar", "start_spawn", "start_store",
                "hook_sidecar", "hook_spawn", "hook_store"}

\* C16 as stated: a start operation that is spawning does not hold the
\* guard.
C16_SpawnWithoutGuard ==
    \A p \in Procs : pc[p] \in {"start_spawn", "hook_spawn"} => holder # p

\* C16, amended: a start operation holds the guard from the moment it found
\* the slot empty until it has stored the handle, and no stop_backend looks
\* at the slot while some start operation is in that window.
C16_SpawnUnderGuard ==
    /\ [](\A p \in Procs : pc[p] \in MidSpawnPcs => holder = p)
    /\ [][\A c \in Callers :
            (pc[c] = "stop_take" /\ Stepped(c))
            => \A p \in Procs : pc[p] \notin MidSpawnPcs]_vars

\* stop_backend waits for the guard while the startup hook is spawning.
C16_Witness ==
    /\ pc[HookId] = "hook_spawn"
    /\ \E c \in Callers : pc[c] = "stop_lock"

\* ---- C17 ---------------------------------------------------------------
\* C17: a worker whose kill succeeded is dead from then on (its stream gets
\* no further event), a drain task attached to it eventually exits, and the
\* step of stop_backend that kills returns at once, whatever the drain does.
C17_KilledWorkersDrainExits ==
    /\ [](\A w \in Workers : killed[w] = "ok" => w \notin alive)
    /\ \A w \in Workers :
         (killed[w] = "ok" /\ drain[w] \in {"cmd", "auto"})
           ~> (drain[w] = "exited")
    /\ [][\A c \in Callers :
            (pc[c] = "stop_kill" /\ Stepped(c))
            => pc'[c] = "idle" /\ drain' = drain]_vars

\* stop_backend has returned "Backend stopped" while the drain of the worker
\* it killed is still running.
C17_Witness ==
    /\ ret[2] = Ok(MsgStopped)
    /\ \E w \in Workers : /\ killed[w] = "ok"
                          /\ drain[w] \in {"cmd", "auto"}
                          /\ stream[w] # << >>

\* ---- C18 ---------------------------------------------------------------
\* C18: a kill is issued on a handle only by the kill step of the operation
\* (stop_backend or the close handler) that holds the guard and has taken
\* that handle out of the slot; it is the first kill on that handle, and no
\* later step issues another; the handle in the slot has never been killed.
C18_KillOncePerTakenHandle ==
    /\ [](IsSome(child) => killed[child] = "none")
    /\ [][\A w \in Workers :
            killed'[w] # killed[w]
            => /\ killed[w] = "none"
               /\ child # w
               /\ \E p \in Procs :
                    /\ pc[p] \in {"stop_kill", "close_kill"}
                    /\ Stepped(p)
                    /\ local_child[p] = w
                    /\ holder = p]_vars

\* The close handler is killing the handle it took while a stop_backend
\* waits for the guard; the earlier worker was killed by a stop_backend.
C18_Witness ==
    /\ pc[CloseId] = "close_kill"
    /\ \E c \in Callers : pc[c] = "stop_lock"
    /\ \E w \in Workers : killed[w] # "none"

====
